---- MODULE Spec2Model ----
(***************************************************************************)
(* Model of get_system_data (src/saltext/sap/_modules/sap.py).             *)
(*                                                                         *)
(* The function is sequential.  Its local variables are the state; every   *)
(* collaborator call (__salt__[...], requests.get) is a step whose answer  *)
(* is drawn from a small set.  The answers given during the first call are *)
(* remembered in memo and given again during the second call, so that two  *)
(* sequential calls with identical collaborator responses can be compared. *)
(*                                                                         *)
(* Representation of Python values:                                        *)
(*   dict          function with the keys as domain ({} is << >>)          *)
(*   ordered dict  sequence of [key, value] items (parameters)             *)
(*   str           TLA+ string; f-strings are built with \o                *)
(*   a string that the code splits is given by its pieces: a parameter     *)
(*   value is the sequence of its ","-separated sub-fields, each the       *)
(*   sequence of its "="-separated pieces ("PROT=HTTP,PORT=80" is          *)
(*   << <<"PROT","HTTP">>, <<"PORT","80">> >>)                             *)
(***************************************************************************)
EXTENDS Integers, Sequences, FiniteSets, TLC

VARIABLES
    sid,          \* argument sid
    verify,       \* argument verify
    call,         \* number of the running (or last finished) call, 0 before the first
    pc,           \* position in get_system_data
    system_data,  \* local system_data
    instances,    \* local instances (after line 100: the instance details)
    idx,          \* position of the for loop of line 114 in instances
    hostname,     \* local hostname
    fqdn,         \* local fqdn (of the first discovered host)
    parameters,   \* local parameters; [bound |-> FALSE] while the name is unbound
    outcome,      \* how the call ended: return, or raise with exception type and message
    memo,         \* collaborator responses given so far, by call site
    trace         \* the local states each call went through

vars == <<sid, verify, call, pc, system_data, instances, idx, hostname, fqdn,
          parameters, outcome, memo, trace>>

(***************************************************************************)
(* Bounds of the explored inputs.                                          *)
(***************************************************************************)
MaxInstances == 2   \* longest instance-detail list
MaxLines == 2       \* most lines of a parameter dump

(***************************************************************************)
(* Ambient facts (__grains__) and arguments.                               *)
(***************************************************************************)
GrainDomain == "example.org"
GrainFqdn == "minion.example.org"
Sids == {"S4H"}

(***************************************************************************)
(* Python helpers.                                                         *)
(***************************************************************************)
EmptyDict == << >>

HasKey(d, k) == k \in DOMAIN d

\* d[k] = v
Put(d, k, v) == [x \in (DOMAIN d) \cup {k} |-> IF x = k THEN v ELSE d[x]]

\* del d[k]
Del(d, k) == [x \in (DOMAIN d) \ {k} |-> d[x]]

\* None, where a string is expected (protocol and port, lines 179-180).
NoneStr == "<None>"

\* str.strip() on the strings of the model that carry surrounding whitespace.
Strip(s) ==
    CASE s = " PORT" -> "PORT"
      [] s = "SAPDBHOST " -> "SAPDBHOST"
      [] s = " host1" -> "host1"
      [] OTHER -> s

\* str.upper() on the protocol names of the model.
Upper(s) ==
    CASE s = "http" -> "HTTP"
      [] s = "https" -> "HTTPS"
      [] s = "Https" -> "HTTPS"
      [] s = "ftp" -> "FTP"
      [] OTHER -> s

\* int(s): the strings int() accepts, with their values; any other raises ValueError.
DecimalValue ==
    ("8000" :> 8000) @@ ("8001" :> 8001) @@ ("8443" :> 8443) @@ ("8080" :> 8080)
        @@ ("21" :> 21) @@ ("0" :> 0)

IsDecimal(s) == s \in DOMAIN DecimalValue

Digit == <<"0", "1", "2", "3", "4", "5", "6", "7", "8", "9">>

\* f"{n:02d}" for 0 <= n < 100
TwoDigits(n) == Digit[(n \div 10) + 1] \o Digit[(n % 10) + 1]

\* f"{hostname}.{domain}" (lines 96, 117)
Fqdn(h, d) == h \o "." \o d

\* f"No instances found for {sid} on {fqdn}" (lines 87, 108)
NoInstancesMsg(s, f) == "No instances found for " \o s \o " on " \o f

\* str.startswith for the parameter keys of the model.
IcmPrefix == "icm/server_port_"
MsPrefix == "ms/server_port_"
StartsWith(k, p) ==
    \/ p = IcmPrefix /\ k \in {"icm/server_port_0", "icm/server_port_1"}
    \/ p = MsPrefix /\ k \in {"ms/server_port_0", "ms/server_port_1"}


(***************************************************************************)
(* Collaborator responses.                                                 *)
(***************************************************************************)
FeatureNames == {"ABAP", "WEBDISP", "J2EE", "TREX", "HDB", "MESSAGESERVER"}

\* Feature lists of an instance: every combination of the names the code
\* looks for, and lists with a name it does not look for.
FeatureSets == (SUBSET FeatureNames) \cup {{"ENQUE"}, {"MESSAGESERVER", "ENQUE"}}

\* Feature lists used for systems of several instances.
CoreFeatureSets == {{"ABAP"}, {"WEBDISP"}, {"MESSAGESERVER"}}

\* Feature lists of the single-instance systems whose parameter dumps are
\* explored up to MaxLines lines.
DeepFeatureSets == {{"ABAP"}, {"MESSAGESERVER"}}

\* (hostname, instance number) of an instance
Identities == {<<"sap1", 0>>, <<"sap2", 1>>}

InstanceRecord(id, f) == [hostname |-> id[1], instance |-> id[2], features |-> f]

\* sap_hostctrl.list_instances: a list of {hostname: instance_number}
DiscoveryResults ==
    { << >>,
      << ("sap2" :> 1), ("sap1" :> 0) >> }

\* sap_control.get_system_instance_list: a list of instance dicts
DetailResults ==
    { << >> }
    \cup { << InstanceRecord(id, f) >> : id \in Identities, f \in FeatureSets }
    \cup UNION { [1..n -> { InstanceRecord(id, f) : id \in Identities, f \in CoreFeatureSets }]
                 : n \in 2..MaxInstances }

\* One line of a parameter dump, as "=" in line and line.split("=", 1) see it.
Line(k, v) == [eq |-> TRUE, key |-> k, value |-> v]
Text(t) == [eq |-> FALSE, key |-> t, value |-> << >>]

PortValues ==
    { << <<"PROT", "HTTP">>, <<"PORT", "8000">> >>,
      << <<"PROT", "https">>, <<" PORT", "8001">> >>,
      << <<"PROT", "FTP">>, <<"PORT", "21">> >>,
      << <<"PROT", "HTTP">> >>,
      << <<"PORT", "8000">> >>,
      << <<"PROT", "HTTP">>, <<"PORT", "0">> >>,
      << <<"PROT", "HTTP">>, <<"PORT", "80$$">> >>,
      << <<"PROT", "HTTPS">>, <<"PORT", "8443">>, <<"TIMEOUT", "60">> >>,
      << <<"PROT", "HTTP">>, <<"PORT", "8000">>, <<"EXTBIND">> >> }

HttpLine == Line("icm/server_port_0", << <<"PROT", "HTTP">>, <<"PORT", "8000">> >>)

AbapLines ==
    { Line("SAPDBHOST ", << <<" host1">> >>),
      Line("rsdb/dbid", << <<"T01">> >>),
      Text("foo"),
      Line("icm/server_port_1", << <<"PROT", "HTTPS">>, <<"PORT", "8001">> >>) }
    \cup { Line("icm/server_port_0", v) : v \in PortValues }

MessageServerLines ==
    { Text("foo"),
      Line("ms/server_port_1", << <<"PROT", "HTTPS">>, <<"PORT", "8001">> >>) }
    \cup { Line("ms/server_port_0", v) : v \in PortValues }

CoreLines == { HttpLine }

Dumps(lines, n) == UNION { [1..k -> lines] : k \in 0..n }

\* sap_control.parameter_value: (success, parameters_str); parameters_str as
\* parameters_str.split("\n")
ParameterResponses(insts, i) ==
    LET f == insts[i].features
        dumps == IF Len(insts) = 1 /\ f \in DeepFeatureSets
                 THEN Dumps(IF "ABAP" \in f THEN AbapLines ELSE MessageServerLines,
                            MaxLines)
                 ELSE Dumps(CoreLines, 1)
    IN  { [success |-> FALSE, lines |-> << >>] }
        \cup { [success |-> TRUE, lines |-> d] : d \in dumps }

\* sap_control.get_abap_component_list: (success, comps)
ComponentResponses(insts) ==
    IF Len(insts) = 1
    THEN { [success |-> FALSE, comps |-> << >>],
           [success |-> TRUE, comps |-> << >>],
           [success |-> TRUE, comps |-> <<"SAP_BASIS">>] }
    ELSE { [success |-> TRUE, comps |-> <<"SAP_BASIS">>] }

\* sap_control.get_instance_properties: a mapping
PropertyResponses == { EmptyDict, [INSTANCE_NAME |-> "D00"] }

\* file.grep: {retcode, stdout}; stdout as stdout.split("\t")
GrepResponses ==
    { [retcode |-> 1, stdout |-> <<"">>],
      [retcode |-> 0,
       stdout |-> <<"sapmsS4H", "3600/tcp", "# SAP System Message Server Port">>] }

\* s.split("/")[0] for the service entries of the model
BeforeSlash(s) == CASE s = "3600/tcp" -> "3600" [] OTHER -> s

\* requests.get: raises RequestException, or a response with .ok and .text;
\* .text as text.split("\n"), each line as line.split("\t")
EmptyText == << <<"">> >>
HttpResponses ==
    { [raises |-> TRUE, ok |-> FALSE, text |-> EmptyText],
      [raises |-> FALSE, ok |-> FALSE, text |-> EmptyText],
      [raises |-> FALSE, ok |-> TRUE, text |-> EmptyText],
      [raises |-> FALSE, ok |-> TRUE,
       text |-> << <<"Header">>, <<"G1", "info">>, <<"G2", "info">>, <<"">>, <<"">> >>] }

\* The response of a call site: drawn from S the first time, repeated afterwards.
Responses(key, S) == IF key \in DOMAIN memo THEN {memo[key]} ELSE S


(***************************************************************************)
(* Parameter dump parsing (lines 131-137).                                 *)
(***************************************************************************)
\* value.strip(): whitespace before the first and after the last piece
StripValue(v) ==
    LET a == [v EXCEPT ![1] = [@ EXCEPT ![1] = Strip(@)]]
    IN  [a EXCEPT ![Len(a)] = [@ EXCEPT ![Len(@)] = Strip(@)]]

HasItem(items, k) == \E j \in 1..Len(items) : items[j].key = k

Item(items, k) == items[CHOOSE j \in 1..Len(items) : items[j].key = k].value

\* parameters[k] = v on an insertion-ordered dict
DictSet(items, k, v) ==
    IF HasItem(items, k)
    THEN [j \in 1..Len(items) |->
             IF items[j].key = k THEN [key |-> k, value |-> v] ELSE items[j]]
    ELSE Append(items, [key |-> k, value |-> v])

RECURSIVE FillParameters(_, _, _)
FillParameters(lines, k, items) ==
    IF k > Len(lines)
    THEN items
    ELSE FillParameters(lines, k + 1,
             IF lines[k].eq
             THEN DictSet(items, Strip(lines[k].key), StripValue(lines[k].value))
             ELSE items)

ParseParameters(lines) == [bound |-> TRUE, items |-> FillParameters(lines, 1, << >>)]

UnboundParameters == [bound |-> FALSE, items |-> << >>]

RECURSIVE JoinWith(_, _)
JoinWith(seq, sep) ==
    IF Len(seq) = 0 THEN ""
    ELSE IF Len(seq) = 1 THEN seq[1]
    ELSE seq[1] \o sep \o JoinWith(Tail(seq), sep)

\* The parameter value as the string it is.
ValueString(v) == JoinWith([j \in 1..Len(v) |-> JoinWith(v[j], "=")], ",")

(***************************************************************************)
(* PROT/PORT sub-field parsing (lines 178-204 and 244-270).                *)
(***************************************************************************)
RECURSIVE SubFields(_, _, _, _)
SubFields(params, k, protocol, port) ==
    IF k > Len(params)
    THEN [exc |-> "", protocol |-> protocol, port |-> port]
    ELSE LET k_v == params[k]
         IN  IF Len(k_v) < 2
             THEN [exc |-> "IndexError", protocol |-> protocol, port |-> port]
             ELSE LET key == Strip(k_v[1])
                      value == Strip(k_v[2])
                  IN  SubFields(params, k + 1,
                                IF key = "PROT" THEN value ELSE protocol,
                                IF key = "PORT" THEN value ELSE port)

\* What one port parameter does: an exception, or the field of the instance
\* record it sets ("" when the entry is skipped) and the port.
PortEntry(icm_v) ==
    LET r == SubFields(icm_v, 1, NoneStr, NoneStr)
    IN  IF r.exc # "" THEN [exc |-> r.exc, field |-> "", port |-> 0]
        ELSE IF r.port = NoneStr THEN [exc |-> "TypeError", field |-> "", port |-> 0]
        ELSE IF ~IsDecimal(r.port) THEN [exc |-> "ValueError", field |-> "", port |-> 0]
        ELSE LET port == DecimalValue[r.port]
             IN  IF r.protocol = NoneStr \/ r.protocol = "" \/ port = 0
                 THEN [exc |-> "", field |-> "", port |-> port]
                 ELSE IF Upper(r.protocol) = "HTTPS"
                 THEN [exc |-> "", field |-> "httpsport", port |-> port]
                 ELSE IF Upper(r.protocol) = "HTTP"
                 THEN [exc |-> "", field |-> "httpport", port |-> port]
                 ELSE [exc |-> "", field |-> "", port |-> port]

\* for icm_k, icm_v in parameters.items(): ... on the keys with the prefix
RECURSIVE PortLoop(_, _, _, _)
PortLoop(items, k, prefix, instance) ==
    IF k > Len(items)
    THEN [exc |-> "", instance |-> instance]
    ELSE IF ~StartsWith(items[k].key, prefix)
    THEN PortLoop(items, k + 1, prefix, instance)
    ELSE LET e == PortEntry(items[k].value)
         IN  IF e.exc # "" THEN [exc |-> e.exc, instance |-> instance]
             ELSE PortLoop(items, k + 1, prefix,
                           IF e.field = "" THEN instance
                           ELSE Put(instance, e.field, e.port))

(***************************************************************************)
(* Instance classification (lines 140, 205-219, 316-317).                  *)
(***************************************************************************)
\* The MESSAGESERVER test ahead of the others.
InstanceTypeMessageServerFirst(features) ==
    IF "MESSAGESERVER" \in features THEN "ASCS"
    ELSE IF "ABAP" \in features THEN "ABAP"
    ELSE IF "WEBDISP" \in features THEN "WEBDISP"
    ELSE IF "J2EE" \in features THEN "JAVA"
    ELSE IF "TREX" \in features THEN "TREX"
    ELSE IF "HDB" \in features THEN "HDB"
    ELSE "UNKNOWN"

InstanceType(features) ==
    IF "ABAP" \in features THEN "ABAP"
    ELSE IF "WEBDISP" \in features THEN "WEBDISP"
    ELSE IF "J2EE" \in features THEN "JAVA"
    ELSE IF "TREX" \in features THEN "TREX"
    ELSE IF "HDB" \in features THEN "HDB"
    ELSE IF "MESSAGESERVER" \in features THEN "ASCS"
    ELSE "UNKNOWN"

(***************************************************************************)
(* Logon group retrieval (lines 282-314).                                  *)
(***************************************************************************)
NoResponse == << >>

\* The loop of line 283 from candidate j on: the exception it raises or the
\* response it ends with.
RECURSIVE ProbeServers(_, _, _, _)
ProbeServers(servers, j, http, v) ==
    IF j > Len(servers)
    THEN [exc |-> "", response |-> NoResponse]
    ELSE LET message_server == servers[j]
             \* lines 291-302, once the URL is built
             get == IF http[j].raises THEN ProbeServers(servers, j + 1, http, v)
                    ELSE IF ~http[j].ok THEN ProbeServers(servers, j + 1, http, v)
                    ELSE [exc |-> "", response |-> http[j].text]
         IN  IF v /\ HasKey(message_server, "httpsport")
             THEN get
             ELSE \* line 290 reads message_server['httpsport']
                  IF ~HasKey(message_server, "httpsport")
                  THEN [exc |-> "KeyError", response |-> NoResponse]
                  ELSE get

\* not response
Falsy(response) == response = NoResponse \/ response = EmptyText

RECURSIVE GroupNames(_, _)
GroupNames(text, k) ==
    IF k > Len(text) THEN << >>
    ELSE IF text[k] = <<"">> THEN GroupNames(text, k + 1)
    ELSE <<text[k][1]>> \o GroupNames(text, k + 1)

LogonGroupsOf(response) ==
    IF Falsy(response) THEN <<"SPACE">> ELSE GroupNames(response, 2)


(***************************************************************************)
(* The state of a call.                                                    *)
(***************************************************************************)
NoOutcome == [kind |-> "none", exc |-> "", msg |-> ""]
Returned == [kind |-> "return", exc |-> "", msg |-> ""]
Raise(e, m) == [kind |-> "raise", exc |-> e, msg |-> m]

Locals ==
    [pc |-> pc, system_data |-> system_data, instances |-> instances, idx |-> idx,
     hostname |-> hostname, fqdn |-> fqdn, parameters |-> parameters,
     outcome |-> outcome]

\* The step just taken is added to the trace of the running call.
Record == trace' = [trace EXCEPT ![call'] = Append(@, Locals')]

Remember(key, r) == memo' = Put(memo, key, r)

Finished == pc \in {"returned", "raised"}

\* The accumulator of line 91 created before the check of line 85.
InitialSystemDataWithInstances == [instances |-> EmptyDict]

\* line 79
InitialSystemData == EmptyDict

Init ==
    /\ sid \in Sids
    /\ verify \in BOOLEAN
    /\ call = 0
    /\ pc = "idle"
    /\ system_data = InitialSystemData
    /\ instances = << >>
    /\ idx = 0
    /\ hostname = ""
    /\ fqdn = ""
    /\ parameters = UnboundParameters
    /\ outcome = NoOutcome
    /\ memo = << >>
    /\ trace = << << >>, << >> >>

\* A call that finds the locals of the call before it.
CallKeepingLocals ==
    /\ pc = "idle" \/ (Finished /\ call = 1)
    /\ call' = call + 1
    /\ pc' = "list_instances"
    /\ outcome' = NoOutcome
    /\ UNCHANGED <<sid, verify, memo, system_data, instances, idx, hostname, fqdn,
                   parameters>>
    /\ Record

(***************************************************************************)
(* get_system_data is entered (lines 47, 78-80): a new frame, in which no  *)
(* local is bound but system_data.  The second call follows the first.     *)
(***************************************************************************)
Call ==
    /\ pc = "idle" \/ (Finished /\ call = 1)
    /\ call' = call + 1
    /\ pc' = "list_instances"
    /\ system_data' = InitialSystemData
    /\ instances' = << >>
    /\ idx' = 0
    /\ hostname' = ""
    /\ fqdn' = ""
    /\ parameters' = UnboundParameters
    /\ outcome' = NoOutcome
    /\ UNCHANGED <<sid, verify, memo>>
    /\ Record

(***************************************************************************)
(* Instance discovery (lines 81-97).                                       *)
(***************************************************************************)
ListInstances ==
    /\ pc = "list_instances"
    /\ \E r \in Responses(<<"list_instances", 0>>, DiscoveryResults) :
        /\ Remember(<<"list_instances", 0>>, r)
        /\ instances' = r
        /\ IF r = << >>
           THEN /\ pc' = "returned"
                /\ outcome' = Returned
                /\ UNCHANGED <<system_data, hostname, fqdn>>
           ELSE /\ pc' = "instance_list"
                /\ system_data' = [instances |-> EmptyDict]
                /\ hostname' = (CHOOSE h \in DOMAIN r[1] : TRUE)
                /\ fqdn' = Fqdn(hostname', GrainDomain)
                /\ UNCHANGED outcome
    /\ UNCHANGED <<sid, verify, call, idx, parameters>>
    /\ Record

\* The message of line 87, with the fqdn grain, raised at line 110.
DetailFailureWithGrainFqdn(s, f) == Raise("Exception", NoInstancesMsg(s, GrainFqdn))

\* lines 108-110
DetailFailure(s, f) == Raise("Exception", NoInstancesMsg(s, f))

(***************************************************************************)
(* Instance details (lines 99-113).                                        *)
(***************************************************************************)
GetSystemInstanceList ==
    /\ pc = "instance_list"
    /\ \E r \in Responses(<<"get_system_instance_list", 0>>, DetailResults) :
        /\ Remember(<<"get_system_instance_list", 0>>, r)
        /\ instances' = r
        /\ IF r = << >>
           THEN /\ pc' = "raised"
                /\ outcome' = DetailFailure(sid, fqdn)
                /\ UNCHANGED idx
           ELSE /\ pc' = "parameters"
                /\ idx' = 1
                /\ UNCHANGED outcome
    /\ UNCHANGED <<sid, verify, call, system_data, hostname, fqdn, parameters>>
    /\ Record

\* The fqdn of the first discovered host (as line 322 passes) for every instance.
InstanceFqdnOfFirstHost(instance) == fqdn

\* line 117
InstanceFqdn(instance) == Fqdn(instance.hostname, GrainDomain)

(***************************************************************************)
(* Start of the loop body: fqdn and parameters of the instance             *)
(* (lines 114-137).  A failed retrieval leaves the name parameters as it   *)
(* is: unbound, or bound to the dict of the previous instance.             *)
(***************************************************************************)
ParameterValue ==
    /\ pc = "parameters"
    /\ instances' = [instances EXCEPT ![idx] = Put(@, "fqdn", InstanceFqdn(@))]
    /\ \E r \in Responses(<<"parameter_value", idx>>, ParameterResponses(instances, idx)) :
        /\ Remember(<<"parameter_value", idx>>, r)
        /\ parameters' = IF r.success THEN ParseParameters(r.lines) ELSE parameters
    /\ pc' = "classify"
    /\ UNCHANGED <<sid, verify, call, system_data, idx, hostname, fqdn, outcome>>
    /\ Record


(***************************************************************************)
(* ABAP instance (lines 139-204).                                          *)
(***************************************************************************)
ProcessABAP ==
    /\ pc = "classify"
    /\ InstanceType(instances[idx].features) = "ABAP"
    /\ LET instance == Put(instances[idx], "type", "ABAP")
       IN  IF ~parameters.bound
           THEN \* line 144 reads a name that was never bound
                /\ pc' = "raised"
                /\ outcome' = Raise("UnboundLocalError", "")
                /\ instances' = [instances EXCEPT ![idx] = instance]
                /\ UNCHANGED <<system_data, memo>>
           ELSE LET items == parameters.items
                    sd1 == IF HasItem(items, "SAPDBHOST")
                           THEN Put(system_data, "db_host",
                                    ValueString(Item(items, "SAPDBHOST")))
                           ELSE system_data
                    sd2 == IF HasItem(items, "rsdb/dbid")
                           THEN Put(sd1, "db_instance",
                                    ValueString(Item(items, "rsdb/dbid")))
                           ELSE sd1
                    ports == PortLoop(items, 1, IcmPrefix, instance)
                IN  /\ \E c \in Responses(<<"get_abap_component_list", idx>>,
                                          ComponentResponses(instances)) :
                        /\ Remember(<<"get_abap_component_list", idx>>, c)
                        /\ system_data' =
                               IF c.success /\ c.comps # << >>
                               THEN Put(sd2, "software_components", c.comps)
                               ELSE sd2
                    /\ instances' = [instances EXCEPT ![idx] = ports.instance]
                    /\ IF ports.exc # ""
                       THEN pc' = "raised" /\ outcome' = Raise(ports.exc, "")
                       ELSE pc' = "properties" /\ UNCHANGED outcome
    /\ UNCHANGED <<sid, verify, call, idx, hostname, fqdn, parameters>>
    /\ Record

(***************************************************************************)
(* WEBDISP, J2EE, TREX, HDB and unknown instances (lines 205-216, 316-317).*)
(***************************************************************************)
ProcessOtherType ==
    /\ pc = "classify"
    /\ InstanceType(instances[idx].features) \notin {"ABAP", "ASCS"}
    /\ instances' = [instances EXCEPT
                        ![idx] = Put(@, "type", InstanceType(@.features))]
    /\ pc' = "properties"
    /\ UNCHANGED <<sid, verify, call, system_data, idx, hostname, fqdn, parameters,
                   outcome, memo>>
    /\ Record

\* lines 229-236
MessageServerPort(g, instance) ==
    IF g.retcode = 0
    THEN BeforeSlash(g.stdout[2])
    ELSE "36" \o TwoDigits(instance.instance)

\* lines 271-277
WithDefaultHttpPort(message_server, instance) ==
    IF ~HasKey(message_server, "httpport")
    THEN Put(message_server, "httpport", "81" \o TwoDigits(instance.instance))
    ELSE message_server

(***************************************************************************)
(* MESSAGESERVER instance, ports (lines 217-279).                          *)
(***************************************************************************)
ProcessMessageServer ==
    /\ pc = "classify"
    /\ InstanceType(instances[idx].features) = "ASCS"
    /\ LET instance == Put(instances[idx], "type", "ASCS")
           sd1 == IF HasKey(system_data, "message_servers")
                  THEN system_data
                  ELSE Put(system_data, "message_servers", << >>)
       IN  \E g \in Responses(<<"file.grep", idx>>, GrepResponses) :
            /\ Remember(<<"file.grep", idx>>, g)
            /\ LET message_server == [host |-> instance.fqdn,
                                      msport |-> MessageServerPort(g, instance)]
               IN  IF ~parameters.bound
                   THEN \* line 241 reads a name that was never bound
                        /\ pc' = "raised"
                        /\ outcome' = Raise("UnboundLocalError", "")
                        /\ instances' = [instances EXCEPT ![idx] = instance]
                        /\ system_data' = sd1
                   ELSE LET ports == PortLoop(parameters.items, 1, MsPrefix, instance)
                        IN  /\ instances' = [instances EXCEPT ![idx] = ports.instance]
                            /\ IF ports.exc # ""
                               THEN /\ pc' = "raised"
                                    /\ outcome' = Raise(ports.exc, "")
                                    /\ system_data' = sd1
                               ELSE /\ pc' = "logon_groups"
                                    /\ UNCHANGED outcome
                                    /\ system_data' =
                                         Put(sd1, "message_servers",
                                             Append(sd1.message_servers,
                                                    WithDefaultHttpPort(message_server,
                                                                        ports.instance)))
    /\ UNCHANGED <<sid, verify, call, idx, hostname, fqdn, parameters>>
    /\ Record

(***************************************************************************)
(* MESSAGESERVER instance, logon groups (lines 280-315).                   *)
(***************************************************************************)
LogonGroups ==
    /\ pc = "logon_groups"
    /\ LET servers == system_data.message_servers
       IN  \E http \in Responses(<<"requests.get", idx>>,
                                 [1..Len(servers) -> HttpResponses]) :
            /\ Remember(<<"requests.get", idx>>, http)
            /\ LET probe == ProbeServers(servers, 1, http, verify)
               IN  IF probe.exc # ""
                   THEN /\ pc' = "raised"
                        /\ outcome' = Raise(probe.exc, "")
                        /\ UNCHANGED system_data
                   ELSE /\ pc' = "properties"
                        /\ UNCHANGED outcome
                        /\ system_data' = Put(system_data, "logon_groups",
                                              LogonGroupsOf(probe.response))
    /\ UNCHANGED <<sid, verify, call, instances, idx, hostname, fqdn, parameters>>
    /\ Record

\* line 327
InstanceName(instance_properties) ==
    IF HasKey(instance_properties, "INSTANCE_NAME")
    THEN instance_properties.INSTANCE_NAME
    ELSE "UNKOWN_INSTANCE_NAME"

\* lines 328-330
InsertInstance(sd, instance) ==
    Put(sd, "instances", Put(sd.instances, instance.instance, Del(instance, "instance")))

(***************************************************************************)
(* End of the loop body: name and insertion (lines 319-333); after the     *)
(* last instance, the return of lines 335-336.                             *)
(***************************************************************************)
InstanceProperties ==
    /\ pc = "properties"
    /\ \E props \in Responses(<<"get_instance_properties", idx>>, PropertyResponses) :
        /\ Remember(<<"get_instance_properties", idx>>, props)
        /\ LET instance == Put(instances[idx], "name", InstanceName(props))
           IN  /\ system_data' = InsertInstance(system_data, instance)
               /\ instances' = [instances EXCEPT ![idx] = Del(instance, "instance")]
    /\ IF idx < Len(instances)
       THEN pc' = "parameters" /\ idx' = idx + 1 /\ UNCHANGED outcome
       ELSE pc' = "returned" /\ outcome' = Returned /\ UNCHANGED idx
    /\ UNCHANGED <<sid, verify, call, hostname, fqdn, parameters>>
    /\ Record

Next ==
    \/ Call
    \/ ListInstances
    \/ GetSystemInstanceList
    \/ ParameterValue
    \/ ProcessABAP
    \/ ProcessOtherType
    \/ ProcessMessageServer
    \/ LogonGroups
    \/ InstanceProperties

Spec == Init /\ [][Next]_vars


(***************************************************************************)
(* Properties.                                                             *)
(***************************************************************************)
DiscoveryKey == <<"list_instances", 0>>
DetailKey == <<"get_system_instance_list", 0>>

Asked(key) == key \in DOMAIN memo

\* The instance the loop is at has been classified.
Classified ==
    /\ idx >= 1
    /\ idx <= Len(instances)
    /\ HasKey(instances[idx], "type")

\* C1: when instance discovery returns an empty result, the call returns the
\* empty mapping and does not raise, and no other collaborator is asked.
C1_EmptyDiscoveryReturnsEmpty ==
    (Finished /\ Asked(DiscoveryKey) /\ memo[DiscoveryKey] = << >>)
        => /\ pc = "returned"
           /\ outcome = Returned
           /\ system_data = EmptyDict
           /\ DOMAIN memo = {DiscoveryKey}

C1_Witness ==
    /\ pc = "returned"
    /\ memo[DiscoveryKey] = << >>
    /\ system_data = EmptyDict

\* C2: when discovery returns instances and the instance-detail call returns an
\* empty result, the call raises with the message built from the system id
\* and <first discovered hostname>.<domain grain>, and returns nothing.
C2_DetailFailureRaises ==
    (Finished /\ Asked(DetailKey) /\ memo[DetailKey] = << >>)
        => /\ pc = "raised"
           /\ outcome.kind = "raise"
           /\ outcome.msg =
                  "No instances found for " \o sid \o " on "
                      \o (CHOOSE h \in DOMAIN memo[DiscoveryKey][1] : TRUE)
                      \o "." \o GrainDomain

C2_Witness ==
    /\ pc = "raised"
    /\ Asked(DetailKey)
    /\ memo[DetailKey] = << >>
    /\ memo[DiscoveryKey] # << >>

\* C3: when every candidate message server is unreachable or answers with a
\* non-success status, the call completes without raising and
\* logon_groups == ["SPACE"].
C3_LogonGroupFallback ==
    \A k \in 1..Len(instances) :
        (/\ Finished
         /\ Asked(<<"requests.get", k>>)
         /\ \A j \in DOMAIN memo[<<"requests.get", k>>] :
                LET res == memo[<<"requests.get", k>>][j]
                IN  res.raises \/ ~res.ok)
            => /\ outcome.kind = "return"
               /\ HasKey(system_data, "logon_groups")
               /\ system_data.logon_groups = <<"SPACE">>

PrecedenceOrder == <<"ABAP", "WEBDISP", "J2EE", "TREX", "HDB", "MESSAGESERVER">>
PrecedenceType == <<"ABAP", "WEBDISP", "JAVA", "TREX", "HDB", "ASCS">>

FirstPresent(features) ==
    IF \E k \in 1..Len(PrecedenceOrder) : PrecedenceOrder[k] \in features
    THEN PrecedenceType[CHOOSE k \in 1..Len(PrecedenceOrder) :
                            /\ PrecedenceOrder[k] \in features
                            /\ \A j \in 1..(k - 1) : PrecedenceOrder[j] \notin features]
    ELSE "UNKNOWN"

\* C4: the type of an instance is given by the first feature present in the
\* order ABAP, WEBDISP, J2EE, TREX, HDB, MESSAGESERVER, UNKNOWN if none is;
\* an instance with ABAP among its features is typed ABAP and causes no
\* message-server lookup and no logon-group retrieval.
C4_ClassificationPrecedence ==
    /\ \A k \in 1..Len(instances) :
           HasKey(instances[k], "type")
               => /\ instances[k].type = FirstPresent(instances[k].features)
                  /\ "ABAP" \in instances[k].features
                       => /\ instances[k].type = "ABAP"
                          /\ ~Asked(<<"file.grep", k>>)
                          /\ ~Asked(<<"requests.get", k>>)
    /\ HasKey(system_data, "message_servers")
           => Len(system_data.message_servers)
                  <= Cardinality({ k \in 1..Len(instances) :
                                      /\ HasKey(instances[k], "type")
                                      /\ "ABAP" \notin instances[k].features })

C4_Witness ==
    /\ pc = "returned"
    /\ Classified
    /\ {"ABAP", "MESSAGESERVER"} \subseteq instances[idx].features
    /\ instances[idx].type = "ABAP"
    /\ ~HasKey(system_data, "message_servers")

\* C5: an instance whose parameter retrieval fails is processed with an empty
\* parameter map: nothing raises, and the instance gets no httpport and no
\* httpsport from parameters.
C5_ParameterFailureNonFatal ==
    (/\ idx >= 1
     /\ Asked(<<"parameter_value", idx>>)
     /\ ~memo[<<"parameter_value", idx>>].success
     /\ pc \in {"classify", "properties", "logon_groups", "raised"})
        => /\ parameters = [bound |-> TRUE, items |-> << >>]
           /\ outcome.exc # "UnboundLocalError"
           /\ ~HasKey(instances[idx], "httpport")
           /\ ~HasKey(instances[idx], "httpsport")

\* The sub-fields of a port value named key, and the value of the last of them.
FieldsNamed(v, key) == { j \in 1..Len(v) : Len(v[j]) >= 2 /\ Strip(v[j][1]) = key }

LastNamed(v, key) ==
    Strip(v[CHOOSE j \in FieldsNamed(v, key) : \A i \in FieldsNamed(v, key) : i <= j][2])

CarriesBoth(v) == FieldsNamed(v, "PROT") # {} /\ FieldsNamed(v, "PORT") # {}

\* The items of the parameter map that are port entries of the given prefix.
PortItems(prefix) ==
    { j \in 1..Len(parameters.items) : StartsWith(parameters.items[j].key, prefix) }

\* The port entry j has been processed for the instance the loop is at.
Processed(type) ==
    /\ Classified
    /\ instances[idx].type = type
    /\ parameters.bound
    /\ pc \in {"properties", "logon_groups", "raised"}

\* C6: for an ABAP instance, every icm/server_port_* parameter carrying PROT
\* and PORT sets httpport (PROT = HTTP) or httpsport (PROT = HTTPS) to that
\* port, and with any other PROT sets neither; no exception is raised.
C6_IcmPortParsing ==
    Processed("ABAP") =>
        \A j \in PortItems(IcmPrefix) :
            LET v == parameters.items[j].value
                prot == Upper(LastNamed(v, "PROT"))
                port == LastNamed(v, "PORT")
                later == { i \in PortItems(IcmPrefix) : i > j }
                instance == instances[idx]
            IN  CarriesBoth(v)
                    => /\ outcome.kind # "raise"
                       /\ (prot = "HTTP" /\ later = {})
                            => /\ HasKey(instance, "httpport")
                               /\ IsDecimal(port)
                               /\ instance.httpport = DecimalValue[port]
                       /\ (prot = "HTTPS" /\ later = {})
                            => /\ HasKey(instance, "httpsport")
                               /\ IsDecimal(port)
                               /\ instance.httpsport = DecimalValue[port]
                       /\ (prot \notin {"HTTP", "HTTPS"} /\ PortItems(IcmPrefix) = {j})
                            => /\ ~HasKey(instance, "httpport")
                               /\ ~HasKey(instance, "httpsport")

\* C7: the message-server record gets the default httpport "81" + NN when
\* neither an HTTP nor an HTTPS port was found among the ms/server_port_*
\* parameters, and gets none when one was found.
C7_DefaultHttpPort ==
    pc = "logon_groups" =>
        LET instance == instances[idx]
            servers == system_data.message_servers
            message_server == servers[Len(servers)]
            found == HasKey(instance, "httpport") \/ HasKey(instance, "httpsport")
        IN  IF found
            THEN ~HasKey(message_server, "httpport")
            ELSE /\ HasKey(message_server, "httpport")
                 /\ message_server.httpport = "81" \o TwoDigits(instance.instance)

\* C8: the second of two calls with identical collaborator responses goes
\* through the local states of the first and ends as the first did; nothing
\* the first call accumulated is visible in the second.
C8_Idempotence ==
    call = 2 =>
        LET n == Len(trace[2])
        IN  /\ n <= Len(trace[1])
            /\ n >= 1 => trace[2][n] = trace[1][n]
            /\ Finished => n = Len(trace[1])

C8_Witness ==
    /\ call = 2
    /\ pc = "returned"
    /\ HasKey(system_data, "instances")
    /\ Cardinality(DOMAIN system_data.instances) = 2
    /\ HasKey(system_data, "software_components")

\* C9: a port entry (icm/server_port_* of an ABAP instance, ms/server_port_*
\* of a MESSAGESERVER instance) that lacks PROT or lacks PORT sets neither
\* httpport nor httpsport and raises nothing; processing continues.
C9_MalformedPortEntrySkipped ==
    \A type \in {"ABAP", "ASCS"} :
        LET prefix == IF type = "ABAP" THEN IcmPrefix ELSE MsPrefix
        IN  (/\ Processed(type)
             /\ PortItems(prefix) # {}
             /\ \A j \in PortItems(prefix) :
                    LET v == parameters.items[j].value
                    IN  /\ ~CarriesBoth(v)
                        /\ \A i \in 1..Len(v) : Len(v[i]) >= 2)
                => /\ outcome.exc \notin {"TypeError", "ValueError", "IndexError"}
                   /\ ~HasKey(instances[idx], "httpport")
                   /\ ~HasKey(instances[idx], "httpsport")

InstanceTypes == {"ABAP", "WEBDISP", "JAVA", "TREX", "HDB", "ASCS", "UNKNOWN"}

\* C10: when the call returns a non-empty SystemData, the keys of instances
\* are the instance numbers of the instance details, and every record has no
\* "instance" field, fqdn = <hostname>.<domain>, a type among the seven, and
\* as name the INSTANCE_NAME property or the placeholder.
C10_InstanceRecords ==
    (pc = "returned" /\ system_data # EmptyDict)
        => LET detail == memo[DetailKey]
               stored == system_data.instances
           IN  /\ DOMAIN stored = { detail[k].instance : k \in 1..Len(detail) }
               /\ \A n \in DOMAIN stored :
                    LET k == CHOOSE k \in 1..Len(detail) :
                                 /\ detail[k].instance = n
                                 /\ \A j \in (k + 1)..Len(detail) : detail[j].instance # n
                        properties == memo[<<"get_instance_properties", k>>]
                    IN  /\ ~HasKey(stored[n], "instance")
                        /\ stored[n].hostname = detail[k].hostname
                        /\ stored[n].fqdn = detail[k].hostname \o "." \o GrainDomain
                        /\ stored[n].type \in InstanceTypes
                        /\ stored[n].name =
                               IF "INSTANCE_NAME" \in DOMAIN properties
                               THEN properties.INSTANCE_NAME
                               ELSE "UNKOWN_INSTANCE_NAME"

C10_Witness ==
    /\ pc = "returned"
    /\ HasKey(system_data, "instances")
    /\ Cardinality(DOMAIN system_data.instances) = 2
    /\ \E n \in DOMAIN system_data.instances :
           system_data.instances[n].name = "UNKOWN_INSTANCE_NAME"
    /\ \E n \in DOMAIN system_data.instances :
           system_data.instances[n].fqdn # fqdn

====
